---- MODULE Spec2Model ----
(***************************************************************************)
(* Conformance model of the noether capability hierarchy (src/lib.rs).     *)
(* A trait is named by a string; the definition carrying a trait's name    *)
(* is the set of its supertrait bounds as written in its declaration.      *)
(* Bounds on foreign traits (std::ops, num_traits, the prelude) appear as  *)
(* names without a declaration here; a higher-ranked reference bound       *)
(* for<'a> Op<&'a Rhs> is written "Op<&Rhs>".                               *)
(***************************************************************************)
EXTENDS Integers, Sequences, FiniteSets, TLC

VARIABLES impls, assoc, path, lhs, rhs, quot, rem

vars == <<impls, assoc, path, lhs, rhs, quot, rem>>

(***************************************************************************)
(* The trait declarations, one definition per `pub trait`.                 *)
(***************************************************************************)
(* lib.rs:9 *)
CommutativeAddition ==
    {}

(* lib.rs:12 *)
CommutativeMultiplication ==
    {}

(* lib.rs:15 *)
AssociativeAddition ==
    {}

(* lib.rs:18 *)
AssociativeMultiplication ==
    {}

(* lib.rs:21 *)
DistributiveAddition ==
    {}

(* lib.rs:24 *)
ClosedAdd ==
    {"Add"}

(* Variant of ClosedAddRef bound to the by-value operator. *)
ClosedAddRef_ByValue ==
    {"Add"}

(* lib.rs:27 *)
ClosedAddRef ==
    {"Add<&Rhs>"}

(* lib.rs:30 *)
ClosedSub ==
    {"Sub"}

(* lib.rs:33 *)
ClosedSubRef ==
    {"Sub<&Rhs>"}

(* lib.rs:36 *)
ClosedMul ==
    {"Mul"}

(* lib.rs:39 *)
ClosedMulRef ==
    {"Mul<&Rhs>"}

(* lib.rs:42 *)
ClosedDiv ==
    {"Div"}

(* lib.rs:45 *)
ClosedDivRef ==
    {"Div<&Rhs>"}

(* lib.rs:48 *)
ClosedRem ==
    {"Rem"}

(* lib.rs:51 *)
ClosedRemRef ==
    {"Rem<&Rhs>"}

(* lib.rs:54 *)
ClosedNeg ==
    {"Neg"}

(* lib.rs:57 *)
ClosedInv ==
    {"Inv"}

(* lib.rs:60 *)
ClosedAddAssign ==
    {"AddAssign"}

(* lib.rs:63 *)
ClosedAddAssignRef ==
    {"AddAssign<&Rhs>"}

(* lib.rs:66 *)
ClosedSubAssign ==
    {"SubAssign"}

(* lib.rs:69 *)
ClosedSubAssignRef ==
    {"SubAssign<&Rhs>"}

(* lib.rs:72 *)
ClosedMulAssign ==
    {"MulAssign"}

(* lib.rs:75 *)
ClosedMulAssignRef ==
    {"MulAssign<&Rhs>"}

(* lib.rs:78 *)
ClosedDivAssign ==
    {"DivAssign"}

(* lib.rs:81 *)
ClosedDivAssignRef ==
    {"DivAssign<&Rhs>"}

(* lib.rs:84 *)
ClosedRemAssign ==
    {"RemAssign"}

(* lib.rs:87 *)
ClosedRemAssignRef ==
    {"RemAssign<&Rhs>"}

(* lib.rs:90 *)
ClosedZero ==
    {"Zero"}

(* lib.rs:93 *)
ClosedOne ==
    {"One"}

(* lib.rs:96 *)
ClosedDivEuclid ==
    {"Euclid"}

(* lib.rs:101 *)
ClosedRemEuclid ==
    {}

(* lib.rs:139 *)
Set ==
    {"Sized", "Clone", "PartialEq"}

(* lib.rs:155 *)
AdditiveMagma ==
    {"Set", "ClosedAdd", "ClosedAddAssign"}

(* lib.rs:171 *)
MultiplicativeMagma ==
    {"Set", "ClosedMul", "ClosedMulAssign"}

(* lib.rs:187 *)
AdditiveSemigroup ==
    {"AdditiveMagma", "AssociativeAddition"}

(* lib.rs:203 *)
MultiplicativeSemigroup ==
    {"MultiplicativeMagma", "AssociativeMultiplication"}

(* lib.rs:221 *)
AdditiveMonoid ==
    {"AdditiveSemigroup", "ClosedZero"}

(* lib.rs:239 *)
MultiplicativeMonoid ==
    {"MultiplicativeSemigroup", "ClosedOne"}

(* Variant of AdditiveGroup without the subtraction bounds. *)
AdditiveGroup_NoSub ==
    {"AdditiveMonoid", "ClosedNeg"}

(* lib.rs:255 *)
AdditiveGroup ==
    {"AdditiveMonoid", "ClosedNeg", "Sub", "SubAssign"}

(* lib.rs:271 *)
MultiplicativeGroup ==
    {"MultiplicativeMonoid", "ClosedInv"}

(* lib.rs:284 *)
AdditiveAbelianGroup ==
    {"AdditiveGroup", "CommutativeAddition"}

(* lib.rs:297 *)
MultiplicativeAbelianGroup ==
    {"MultiplicativeGroup", "CommutativeMultiplication"}

(* lib.rs:319 *)
Semiring ==
    {"AdditiveMonoid", "CommutativeAddition", "MultiplicativeMonoid", "DistributiveAddition"}

(* Variant of Ring that also demands CommutativeRing. *)
Ring_RequiresCommutativeRing ==
    {"AdditiveAbelianGroup", "MultiplicativeMonoid", "DistributiveAddition",
     "CommutativeRing"}

(* Variant of Ring without the distributive marker. *)
Ring_NoDistributive ==
    {"AdditiveAbelianGroup", "MultiplicativeMonoid"}

(* lib.rs:349 *)
Ring ==
    {"AdditiveAbelianGroup", "MultiplicativeMonoid", "DistributiveAddition"}

(* lib.rs:360 *)
CommutativeRing ==
    {"Ring", "CommutativeMultiplication"}

(* lib.rs:376 *)
IntegralDomain ==
    {"Ring"}

(* lib.rs:392 *)
UniqueFactorizationDomain ==
    {"IntegralDomain"}

(* lib.rs:403 *)
PrincipalIdealDomain ==
    {"UniqueFactorizationDomain"}

(* Variant of EuclideanDomain without the Euclid bound. *)
EuclideanDomain_NoEuclid ==
    {"PrincipalIdealDomain"}

(* lib.rs:414 *)
EuclideanDomain ==
    {"PrincipalIdealDomain", "Euclid"}

(* lib.rs:428 *)
Field ==
    {"EuclideanDomain", "ClosedDiv", "ClosedDivAssign"}

(* lib.rs:444 *)
FiniteField ==
    {"Field"}

(* lib.rs:471 *)
RealField ==
    {"Field", "PartialOrd"}

(* lib.rs:479 *)
Polynomial ==
    {"Clone", "PartialEq", "ClosedAdd", "ClosedMul", "Euclid"}

(* lib.rs:494 *)
Module ==
    {"MultiplicativeAbelianGroup"}

(* lib.rs:511 *)
VectorSpace ==
    {"AdditiveAbelianGroup"}

(* lib.rs:524 *)
FieldExtension ==
    {"Field", "VectorSpace"}

(* lib.rs:538 *)
FieldExtensionTower ==
    {"FieldExtension"}

(* Names of the traits declared in lib.rs, in source order. *)
Declared ==
    {"CommutativeAddition", "CommutativeMultiplication",
     "AssociativeAddition", "AssociativeMultiplication",
     "DistributiveAddition", "ClosedAdd", "ClosedAddRef", "ClosedSub",
     "ClosedSubRef", "ClosedMul", "ClosedMulRef", "ClosedDiv",
     "ClosedDivRef", "ClosedRem", "ClosedRemRef", "ClosedNeg",
     "ClosedInv", "ClosedAddAssign", "ClosedAddAssignRef",
     "ClosedSubAssign", "ClosedSubAssignRef", "ClosedMulAssign",
     "ClosedMulAssignRef", "ClosedDivAssign", "ClosedDivAssignRef",
     "ClosedRemAssign", "ClosedRemAssignRef", "ClosedZero", "ClosedOne",
     "ClosedDivEuclid", "ClosedRemEuclid", "Set", "AdditiveMagma",
     "MultiplicativeMagma", "AdditiveSemigroup",
     "MultiplicativeSemigroup", "AdditiveMonoid", "MultiplicativeMonoid",
     "AdditiveGroup", "MultiplicativeGroup", "AdditiveAbelianGroup",
     "MultiplicativeAbelianGroup", "Semiring", "Ring", "CommutativeRing",
     "IntegralDomain", "UniqueFactorizationDomain",
     "PrincipalIdealDomain", "EuclideanDomain", "Field", "FiniteField",
     "RealField", "Polynomial", "Module", "VectorSpace", "FieldExtension",
     "FieldExtensionTower"}

(* The supertrait bounds of trait c; a foreign trait has no declaration here. *)
Supertraits(c) ==
    CASE c = "CommutativeAddition" -> CommutativeAddition
      [] c = "CommutativeMultiplication" -> CommutativeMultiplication
      [] c = "AssociativeAddition" -> AssociativeAddition
      [] c = "AssociativeMultiplication" -> AssociativeMultiplication
      [] c = "DistributiveAddition" -> DistributiveAddition
      [] c = "ClosedAdd" -> ClosedAdd
      [] c = "ClosedAddRef" -> ClosedAddRef
      [] c = "ClosedSub" -> ClosedSub
      [] c = "ClosedSubRef" -> ClosedSubRef
      [] c = "ClosedMul" -> ClosedMul
      [] c = "ClosedMulRef" -> ClosedMulRef
      [] c = "ClosedDiv" -> ClosedDiv
      [] c = "ClosedDivRef" -> ClosedDivRef
      [] c = "ClosedRem" -> ClosedRem
      [] c = "ClosedRemRef" -> ClosedRemRef
      [] c = "ClosedNeg" -> ClosedNeg
      [] c = "ClosedInv" -> ClosedInv
      [] c = "ClosedAddAssign" -> ClosedAddAssign
      [] c = "ClosedAddAssignRef" -> ClosedAddAssignRef
      [] c = "ClosedSubAssign" -> ClosedSubAssign
      [] c = "ClosedSubAssignRef" -> ClosedSubAssignRef
      [] c = "ClosedMulAssign" -> ClosedMulAssign
      [] c = "ClosedMulAssignRef" -> ClosedMulAssignRef
      [] c = "ClosedDivAssign" -> ClosedDivAssign
      [] c = "ClosedDivAssignRef" -> ClosedDivAssignRef
      [] c = "ClosedRemAssign" -> ClosedRemAssign
      [] c = "ClosedRemAssignRef" -> ClosedRemAssignRef
      [] c = "ClosedZero" -> ClosedZero
      [] c = "ClosedOne" -> ClosedOne
      [] c = "ClosedDivEuclid" -> ClosedDivEuclid
      [] c = "ClosedRemEuclid" -> ClosedRemEuclid
      [] c = "Set" -> Set
      [] c = "AdditiveMagma" -> AdditiveMagma
      [] c = "MultiplicativeMagma" -> MultiplicativeMagma
      [] c = "AdditiveSemigroup" -> AdditiveSemigroup
      [] c = "MultiplicativeSemigroup" -> MultiplicativeSemigroup
      [] c = "AdditiveMonoid" -> AdditiveMonoid
      [] c = "MultiplicativeMonoid" -> MultiplicativeMonoid
      [] c = "AdditiveGroup" -> AdditiveGroup
      [] c = "MultiplicativeGroup" -> MultiplicativeGroup
      [] c = "AdditiveAbelianGroup" -> AdditiveAbelianGroup
      [] c = "MultiplicativeAbelianGroup" -> MultiplicativeAbelianGroup
      [] c = "Semiring" -> Semiring
      [] c = "Ring" -> Ring
      [] c = "CommutativeRing" -> CommutativeRing
      [] c = "IntegralDomain" -> IntegralDomain
      [] c = "UniqueFactorizationDomain" -> UniqueFactorizationDomain
      [] c = "PrincipalIdealDomain" -> PrincipalIdealDomain
      [] c = "EuclideanDomain" -> EuclideanDomain
      [] c = "Field" -> Field
      [] c = "FiniteField" -> FiniteField
      [] c = "RealField" -> RealField
      [] c = "Polynomial" -> Polynomial
      [] c = "Module" -> Module
      [] c = "VectorSpace" -> VectorSpace
      [] c = "FieldExtension" -> FieldExtension
      [] c = "FieldExtensionTower" -> FieldExtensionTower
      [] OTHER -> {}

(***************************************************************************)
(* Associated-type bounds and the equality constraint of FieldExtension.   *)
(***************************************************************************)
(* lib.rs:495  type Scalar: Ring *)
Module_Scalar ==
    "Ring"

(* lib.rs:512  type Scalar: Field *)
VectorSpace_Scalar ==
    "Field"

(* lib.rs:525  type BaseField: Field *)
FieldExtension_BaseField ==
    "Field"

(* The traits that carry an associated type. *)
AssocTraits ==
    {"Module", "VectorSpace", "FieldExtension"}

(* The bound on the associated type of trait c. *)
AssocBound(c) ==
    CASE c = "Module" -> Module_Scalar
      [] c = "VectorSpace" -> VectorSpace_Scalar
      [] c = "FieldExtension" -> FieldExtension_BaseField

(* Variant of FieldExtension's bound without Scalar = Self::BaseField. *)
AssocEq_None(c) ==
    {}

(* lib.rs:524  VectorSpace<Scalar = Self::BaseField>: the traits whose       *)
(* associated type must equal the one chosen for c.                        *)
AssocEq(c) ==
    IF c = "FieldExtension" THEN {"VectorSpace"} ELSE {}

(* Every capability that trait c requires: its supertrait bounds and the   *)
(* bound of its associated type.                                           *)
Requires(c) ==
    Supertraits(c) \cup (IF c \in AssocTraits THEN {AssocBound(c)} ELSE {})

(***************************************************************************)
(* Blanket implementations.                                                *)
(***************************************************************************)
(* lib.rs:105-112  impl<T> ClosedRemEuclid for T where T: Euclid *)
ClosedRemEuclid_Where ==
    {"Euclid"}

(* Variants of the where-clause: one asking for AdditiveGroup in place of  *)
(* AdditiveMonoid, one leaving out the two markers.                        *)
Semiring_Where_Group ==
    {"AdditiveGroup", "CommutativeAddition", "MultiplicativeMonoid",
     "DistributiveAddition"}

Semiring_Where_NoMarkers ==
    {"AdditiveMonoid", "MultiplicativeMonoid"}

(* lib.rs:324-327  impl<T> Semiring for T where T: AdditiveMonoid + ...   *)
Semiring_Where ==
    {"AdditiveMonoid", "CommutativeAddition", "MultiplicativeMonoid",
     "DistributiveAddition"}

(* The traits that have a blanket implementation. *)
BlanketImpls ==
    {"ClosedRemEuclid", "Semiring"}

(* The where-clause of the blanket implementation of c. *)
BlanketWhere(c) ==
    CASE c = "ClosedRemEuclid" -> ClosedRemEuclid_Where
      [] c = "Semiring" -> Semiring_Where

(***************************************************************************)
(* The universe of names.                                                  *)
(***************************************************************************)
(* std::cmp::Ord, the total-order counterpart of PartialOrd.  No bound of  *)
(* lib.rs names it.                                                        *)
TotalOrder ==
    "Ord"

(* Foreign traits: named in a bound, not declared in lib.rs. *)
Foreign ==
    ((UNION {Supertraits(c) : c \in Declared}) \ Declared) \cup {TotalOrder}

Traits ==
    Declared \cup Foreign

(* The algebraic structures: Set and every declaration after it.  A type   *)
(* gets one of these by an impl item of its own.                           *)
Structures ==
    {"Set", "AdditiveMagma", "MultiplicativeMagma", "AdditiveSemigroup",
     "MultiplicativeSemigroup", "AdditiveMonoid", "MultiplicativeMonoid",
     "AdditiveGroup", "MultiplicativeGroup", "AdditiveAbelianGroup",
     "MultiplicativeAbelianGroup", "Semiring", "Ring", "CommutativeRing",
     "IntegralDomain", "UniqueFactorizationDomain", "PrincipalIdealDomain",
     "EuclideanDomain", "Field", "FiniteField", "RealField", "Polynomial",
     "Module", "VectorSpace", "FieldExtension", "FieldExtensionTower"}

(* The composite capabilities of the hierarchy, AdditiveMagma through      *)
(* FieldExtensionTower.                                                    *)
Composite ==
    Structures \ {"Set", "Polynomial"}

(* Operator, identity and marker capabilities: everything a type brings    *)
(* before any structure is declared for it.                                *)
Primitives ==
    (Traits \ Structures) \ BlanketImpls

(* All capabilities reachable from S along supertrait bounds. *)
RECURSIVE Closure(_)
Closure(S) ==
    LET N == S \cup UNION {Supertraits(c) : c \in S}
    IN  IF N = S THEN S ELSE Closure(N)

(***************************************************************************)
(* Types.  T is the type of the crate being compiled; K and Z come from a  *)
(* library crate, so the orphan rule lets only T receive new impl items.   *)
(***************************************************************************)
Types ==
    {"T", "K", "Z"}

Local ==
    {"T"}

NoType ==
    "-"

(* At most this many primitive capabilities are withheld from T. *)
MaxOmitted ==
    1

(* The impl items of the library types: K is a field, Z a Euclidean       *)
(* domain of bounded integers; both are commutative and totally ordered.   *)
Library ==
    ({"K"} \X Closure({"Field", "CommutativeRing", "ClosedDivEuclid",
                       "PartialOrd", TotalOrder}))
    \cup
    ({"Z"} \X Closure({"EuclideanDomain", "CommutativeRing",
                       "ClosedDivEuclid", "PartialOrd", TotalOrder}))

(* The primitives whose absence a structure, a blanket impl or an order    *)
(* can notice.                                                             *)
Omittable ==
    Primitives \cap
        (Closure(Structures) \cup {"Euclid", "ClosedDivEuclid", TotalOrder})

(* The subsets of S with at most n members. *)
RECURSIVE SubsetsUpTo(_, _)
SubsetsUpTo(S, n) ==
    IF n = 0 THEN {{}}
    ELSE LET P == SubsetsUpTo(S, n - 1)
         IN  P \cup {p \cup {x} : p \in P, x \in S}

(* T's primitive impl items when the capabilities in om are withheld: a    *)
(* primitive is present unless it, or a bound of it, is withheld.          *)
Available(om) ==
    {c \in Primitives : Closure({c}) \cap om = {}}

(***************************************************************************)
(* Conformance: an impl item for (t, c), or a blanket impl whose           *)
(* where-clause t satisfies.                                               *)
(***************************************************************************)
RECURSIVE ConformsIn(_, _, _)
ConformsIn(I, t, c) ==
    \/ <<t, c>> \in I
    \/ /\ c \in BlanketImpls
       /\ \A r \in BlanketWhere(c) : ConformsIn(I, t, r)

Conforms(t, c) ==
    ConformsIn(impls, t, c)

(* The capabilities t conforms to. *)
Conf(t) ==
    {c \in Traits : Conforms(t, c)}

(***************************************************************************)
(* State after the type definitions and their primitive impl items.        *)
(***************************************************************************)
NotCalled ==
    [st |-> "none", val |-> 0]

NoCall ==
    /\ lhs = 0
    /\ rhs = 0
    /\ quot = NotCalled
    /\ rem = NotCalled

Init ==
    /\ \E om \in SubsetsUpTo(Omittable, MaxOmitted) :
          impls = Library \cup ({"T"} \X Available(om))
    /\ assoc = [t \in Types |-> [c \in AssocTraits |-> NoType]]
    /\ path = <<>>
    /\ NoCall

(* impl c for t {}: accepted when every supertrait bound of c holds of t   *)
(* and no impl of c for t exists already (coherence).                      *)
Declare(t, c) ==
    /\ c \in Structures \ AssocTraits
    /\ ~Conforms(t, c)
    /\ \A r \in Supertraits(c) : Conforms(t, r)
    /\ impls' = impls \cup {<<t, c>>}
    /\ UNCHANGED <<assoc, path, lhs, rhs, quot, rem>>

(* impl c for t { type X = s; }: as Declare, and s satisfies the bound of  *)
(* the associated type and equals the associated types c equates it with.  *)
DeclareAssoc(t, c, s) ==
    /\ c \in AssocTraits
    /\ ~Conforms(t, c)
    /\ \A r \in Supertraits(c) : Conforms(t, r)
    /\ Conforms(s, AssocBound(c))
    /\ \A e \in AssocEq(c) : assoc[t][e] = s
    /\ impls' = impls \cup {<<t, c>>}
    /\ assoc' = [assoc EXCEPT ![t][c] = s]
    /\ UNCHANGED <<path, lhs, rhs, quot, rem>>

Next ==
    \/ \E t \in Local, c \in Structures : Declare(t, c)
    \/ \E t \in Local, c \in AssocTraits, s \in Types : DeclareAssoc(t, c, s)

Spec ==
    Init /\ [][Next]_vars

(***************************************************************************)
(* Supertrait elaboration: a walk from a declared trait along Requires.    *)
(***************************************************************************)
InitWalk ==
    /\ impls = Library
    /\ assoc = [t \in Types |-> [c \in AssocTraits |-> NoType]]
    /\ path = <<>>
    /\ NoCall

Start(c) ==
    /\ path = <<>>
    /\ path' = <<c>>
    /\ UNCHANGED <<impls, assoc, lhs, rhs, quot, rem>>

Descend(d) ==
    /\ path # <<>>
    /\ d \in Requires(path[Len(path)])
    /\ path' = Append(path, d)
    /\ UNCHANGED <<impls, assoc, lhs, rhs, quot, rem>>

Restart ==
    /\ path # <<>>
    /\ path' = <<>>
    /\ UNCHANGED <<impls, assoc, lhs, rhs, quot, rem>>

NextWalk ==
    \/ \E c \in Declared : Start(c)
    \/ \E d \in Traits : Descend(d)
    \/ Restart

SpecWalk ==
    InitWalk /\ [][NextWalk]_vars

(***************************************************************************)
(* Euclidean division on a bounded signed integer type of Bits bits, as    *)
(* num_traits::Euclid forwards it to the primitive integer operations.     *)
(***************************************************************************)
Bits ==
    4

MinInt ==
    -(2 ^ (Bits - 1))

MaxInt ==
    2 ^ (Bits - 1) - 1

Ints ==
    MinInt .. MaxInt

Abs(x) ==
    IF x < 0 THEN -x ELSE x

(* Two's-complement wrap-around into the type's range. *)
Wrap(x) ==
    ((x - MinInt) % (2 ^ Bits)) + MinInt

(* The integer operators / and %: truncation toward zero. *)
TruncDiv(a, b) ==
    IF (a < 0) = (b < 0) THEN Abs(a) \div Abs(b) ELSE -(Abs(a) \div Abs(b))

TruncRem(a, b) ==
    a - b * TruncDiv(a, b)

(* / and % panic on a zero divisor and on MIN / -1. *)
Overflows(a, b) ==
    b = 0 \/ (a = MinInt /\ b = -1)

Ok(v) ==
    [st |-> "ok", val |-> v]

Panic ==
    [st |-> "panic", val |-> 0]

(* Euclid::div_euclid *)
Euclid_div_euclid(a, b) ==
    IF Overflows(a, b) THEN Panic
    ELSE LET q == TruncDiv(a, b)
         IN  IF TruncRem(a, b) < 0
             THEN (IF b > 0 THEN Ok(Wrap(q - 1)) ELSE Ok(Wrap(q + 1)))
             ELSE Ok(q)

(* Euclid::rem_euclid *)
Euclid_rem_euclid(a, b) ==
    IF Overflows(a, b) THEN Panic
    ELSE LET r == TruncRem(a, b)
         IN  IF r < 0 THEN Ok(Wrap(r + Wrap(Abs(b)))) ELSE Ok(r)

(* The remainder operator %, which a faulty forwarding would pick. *)
ClosedRemEuclid_rem_euclid_Trunc(a, b) ==
    IF Overflows(a, b) THEN Panic ELSE Ok(TruncRem(a, b))

(* lib.rs:109-111  ClosedRemEuclid::rem_euclid forwards to Euclid. *)
ClosedRemEuclid_rem_euclid(a, b) ==
    Euclid_rem_euclid(a, b)

InitEuclid ==
    /\ impls = Library
    /\ assoc = [t \in Types |-> [c \in AssocTraits |-> NoType]]
    /\ path = <<>>
    /\ lhs \in Ints
    /\ rhs \in Ints
    /\ quot = NotCalled
    /\ rem = NotCalled

(* Z::rem_euclid(lhs, rhs) through the blanket impl of ClosedRemEuclid. *)
CallRemEuclid ==
    /\ Conforms("Z", "ClosedRemEuclid")
    /\ rem = NotCalled
    /\ rem' = ClosedRemEuclid_rem_euclid(lhs, rhs)
    /\ UNCHANGED <<impls, assoc, path, lhs, rhs, quot>>

(* Euclid::div_euclid(&lhs, &rhs) on Z. *)
CallDivEuclid ==
    /\ Conforms("Z", "Euclid")
    /\ quot = NotCalled
    /\ quot' = Euclid_div_euclid(lhs, rhs)
    /\ UNCHANGED <<impls, assoc, path, lhs, rhs, rem>>

NextEuclid ==
    \/ CallRemEuclid
    \/ CallDivEuclid

SpecEuclid ==
    InitEuclid /\ [][NextEuclid]_vars

(***************************************************************************)
(* Properties.                                                             *)
(***************************************************************************)
(* t conforms to every capability in S. *)
ConformsAll(t, S) ==
    \A r \in S : Conforms(t, r)

(* C1: the capability graph is acyclic: a walk that starts at a declared   *)
(* trait and follows supertrait and associated-type bounds never comes     *)
(* back to a trait it has already passed, so no capability transitively    *)
(* requires itself.                                                        *)
C1_Acyclic ==
    \A i, j \in DOMAIN path : i # j => path[i] # path[j]

C1_Witness ==
    /\ Len(path) >= 15
    /\ path[1] = "FieldExtensionTower"
    /\ path[Len(path)] = "Sized"

(* C2: Semiring is derived automatically: a type conforms to Semiring,     *)
(* with no impl item for Semiring, exactly when it conforms to             *)
(* AdditiveMonoid, CommutativeAddition, MultiplicativeMonoid and           *)
(* DistributiveAddition.                                                   *)
C2_SemiringDerived ==
    \A t \in Types :
        /\ <<t, "Semiring">> \notin impls
        /\ Conforms(t, "Semiring") <=>
              ConformsAll(t, {"AdditiveMonoid", "CommutativeAddition",
                              "MultiplicativeMonoid", "DistributiveAddition"})

C2_Witness ==
    /\ Conforms("T", "Semiring")
    /\ <<"T", "Semiring">> \notin impls
    /\ ~Conforms("T", "AdditiveGroup")

(* C3 as stated: for every composite capability C, a type that conforms to *)
(* every member of C's required set conforms to C with no declaration.     *)
C3_Original ==
    \A t \in Types : \A c \in Composite :
        ConformsAll(t, Supertraits(c)) => Conforms(t, c)

(* C3 amended: structural derivation holds for Semiring alone.  A type     *)
(* conforming to Semiring's required set conforms to Semiring with no      *)
(* declaration; for every other composite capability a type conforms only  *)
(* through its own impl item for it; and whichever way a type conforms to  *)
(* a composite capability, it conforms to every member of the required set.*)
C3_DerivedOnlyForSemiring ==
    \A t \in Types : \A c \in Composite :
        /\ c = "Semiring" =>
              (ConformsAll(t, Supertraits(c)) => Conforms(t, c))
        /\ c # "Semiring" => (Conforms(t, c) <=> <<t, c>> \in impls)
        /\ Conforms(t, c) => ConformsAll(t, Supertraits(c))

C3_Witness ==
    /\ ConformsAll("T", Supertraits("Ring"))
    /\ ~Conforms("T", "Ring")
    /\ Conforms("T", "Semiring")

(* C4: conformance is downward-closed up to Field: a type conforming to    *)
(* Field conforms to every structure on the chain below it and to every    *)
(* operator, identity and marker capability that chain names.              *)
C4_FieldDownwardClosed ==
    \A t \in Types :
        Conforms(t, "Field") =>
            ConformsAll(t,
                {"Set", "ClosedAdd", "ClosedAddAssign", "ClosedMul",
                 "ClosedMulAssign", "ClosedZero", "ClosedOne", "ClosedNeg",
                 "Sub", "SubAssign", "ClosedDiv", "ClosedDivAssign", "Euclid",
                 "AssociativeAddition", "AssociativeMultiplication",
                 "CommutativeAddition", "DistributiveAddition",
                 "EuclideanDomain", "PrincipalIdealDomain",
                 "UniqueFactorizationDomain", "IntegralDomain", "Ring",
                 "AdditiveAbelianGroup", "MultiplicativeMonoid"})

C4_Witness ==
    /\ <<"T", "Field">> \in impls
    /\ <<"T", "RealField">> \in impls

(* C5: an integral domain is a commutative ring: a type conforming to      *)
(* IntegralDomain, UniqueFactorizationDomain, PrincipalIdealDomain,        *)
(* EuclideanDomain or Field conforms to CommutativeRing and carries the    *)
(* commutative-multiplication marker.                                      *)
C5_IntegralDomainCommutative ==
    \A t \in Types :
        \A c \in {"IntegralDomain", "UniqueFactorizationDomain",
                  "PrincipalIdealDomain", "EuclideanDomain", "Field"} :
            Conforms(t, c) =>
                /\ Conforms(t, "CommutativeRing")
                /\ Conforms(t, "CommutativeMultiplication")

(* C6: RealField requires a total order: a type conforming to RealField    *)
(* conforms to Field and to the total-order capability.                    *)
C6_RealFieldTotalOrder ==
    \A t \in Types :
        Conforms(t, "RealField") =>
            /\ Conforms(t, "Field")
            /\ Conforms(t, TotalOrder)

(* C7: a module is an additive abelian group: a type conforming to Module  *)
(* conforms to AdditiveAbelianGroup, and its Scalar conforms to Ring.      *)
C7_ModuleAdditiveAbelian ==
    \A t \in Types :
        Conforms(t, "Module") =>
            /\ Conforms(t, "AdditiveAbelianGroup")
            /\ assoc[t]["Module"] \in Types
            /\ Conforms(assoc[t]["Module"], "Ring")

(* C8 as stated: a type conforming to EuclideanDomain conforms to          *)
(* PrincipalIdealDomain, ClosedDivEuclid and ClosedRemEuclid.              *)
C8_Original ==
    \A t \in Types :
        Conforms(t, "EuclideanDomain") =>
            ConformsAll(t, {"PrincipalIdealDomain", "ClosedDivEuclid",
                            "ClosedRemEuclid"})

(* C8 amended: a type conforming to EuclideanDomain conforms to            *)
(* PrincipalIdealDomain, to Euclid and, through the blanket impl, to       *)
(* ClosedRemEuclid; ClosedDivEuclid is not among its requirements.         *)
C8_EuclideanDomainEuclid ==
    \A t \in Types :
        Conforms(t, "EuclideanDomain") =>
            /\ ConformsAll(t, {"PrincipalIdealDomain", "Euclid",
                               "ClosedRemEuclid"})
            /\ "ClosedDivEuclid" \notin Closure({"EuclideanDomain"})

C8_Witness ==
    /\ Conforms("T", "EuclideanDomain")
    /\ Conforms("T", "ClosedRemEuclid")
    /\ ~Conforms("T", "ClosedDivEuclid")

C10_FieldExtension ==
    \A t \in Types :
        \A c \in {"FieldExtension", "FieldExtensionTower"} :
            Conforms(t, c) =>
                /\ Conforms(t, "Field")
                /\ Conforms(t, "VectorSpace")
                /\ assoc[t]["FieldExtension"] \in Types
                /\ assoc[t]["VectorSpace"] = assoc[t]["FieldExtension"]
                /\ Conforms(assoc[t]["FieldExtension"], "Field")

C10_Witness ==
    /\ Conforms("T", "FieldExtensionTower")
    /\ assoc["T"]["FieldExtension"] = "K"

(***************************************************************************)
(* The operator families of the primitive capabilities (lib.rs:23-87).     *)
(***************************************************************************)
(* Operators with a right-hand side, and the two without one. *)
BinaryOps ==
    {"Add", "Sub", "Mul", "Div", "Rem"}

UnaryOps ==
    {"Neg", "Inv"}

(* Names of the capabilities of operator op: value and reference           *)
(* right-hand side, plain and assigning.                                   *)
ValueVariant(op) ==
    "Closed" \o op

RefVariant(op) ==
    "Closed" \o op \o "Ref"

AssignVariant(op) ==
    "Closed" \o op \o "Assign"

AssignRefVariant(op) ==
    "Closed" \o op \o "AssignRef"

(* The foreign bounds: Op<Rhs> and for<'a> Op<&'a Rhs>. *)
ValueBound(op) ==
    op

RefBound(op) ==
    op \o "<&Rhs>"

(* C11 as stated: each of add, subtract, multiply, divide, remainder,      *)
(* negate and invert, and each of their assignment counterparts, is        *)
(* declared both as a value-right-hand-side and as a                       *)
(* reference-right-hand-side capability, so elaboration that starts at the *)
(* value capability of any of these operators finds the other three        *)
(* declared.                                                               *)
C11_Original ==
    \A op \in BinaryOps \cup UnaryOps :
        (path # <<>> /\ path[1] = ValueVariant(op)) =>
            {ValueVariant(op), RefVariant(op), AssignVariant(op),
             AssignRefVariant(op)} \subseteq Declared

(* C11 amended: each of add, subtract, multiply, divide and remainder, and *)
(* each of their assignment counterparts, is declared both as a            *)
(* value-right-hand-side capability bound to the operator on Rhs and as a  *)
(* reference-right-hand-side capability bound to the operator on &Rhs;     *)
(* negate and invert have no right-hand side and are declared once each,   *)
(* with no reference variant and no assignment counterpart.                *)
C11_BinaryOperatorVariants ==
    /\ \A op \in BinaryOps :
          /\ {ValueVariant(op), RefVariant(op), AssignVariant(op),
               AssignRefVariant(op)} \subseteq Declared
          /\ Supertraits(ValueVariant(op)) = {ValueBound(op)}
          /\ Supertraits(RefVariant(op)) = {RefBound(op)}
          /\ Supertraits(AssignVariant(op)) = {ValueBound(op \o "Assign")}
          /\ Supertraits(AssignRefVariant(op)) = {RefBound(op \o "Assign")}
    /\ \A op \in UnaryOps :
          /\ ValueVariant(op) \in Declared
          /\ Supertraits(ValueVariant(op)) = {ValueBound(op)}
          /\ {RefVariant(op), AssignVariant(op), AssignRefVariant(op)}
                \cap Declared = {}
    /\ \A op \in BinaryOps :
          (Len(path) >= 2 /\ path[1] \in {RefVariant(op),
                                          AssignRefVariant(op)})
              => path[2] \in {RefBound(op), RefBound(op \o "Assign")}

C11_Witness ==
    /\ Len(path) = 2
    /\ path[1] = RefVariant("Add")
    /\ path[2] = RefBound("Add")

(* C12: every Ring is a Semiring: a type conforming to Ring,               *)
(* CommutativeRing, IntegralDomain, EuclideanDomain or Field conforms to   *)
(* Semiring, by the blanket impl and with no impl item for Semiring,       *)
(* because Ring's required set transitively contains Semiring's.           *)
C12_RingIsSemiring ==
    \A t \in Types :
        \A c \in {"Ring", "CommutativeRing", "IntegralDomain",
                  "EuclideanDomain", "Field"} :
            Conforms(t, c) =>
                /\ Conforms(t, "Semiring")
                /\ <<t, "Semiring">> \notin impls
                /\ Semiring \subseteq Closure(Ring)

C12_Witness ==
    /\ <<"T", "Ring">> \in impls
    /\ Conforms("T", "Semiring")
    /\ ~Conforms("T", "CommutativeRing")
    /\ ~Conforms("T", "IntegralDomain")

====
